---- MODULE Spec2Model ----
(***************************************************************************)
(* Model of pig_behavior_analysis_WEBSOCKET.py: the process-wide id        *)
(* mapper, the batch analysis loop of analyze_video_data, and the          *)
(* /live-detect, /reset-tracking and /ws/live-stream handlers.             *)
(*                                                                         *)
(* Numbers: frame rates are kept in thousandths of a frame per second      *)
(* (30 fps is 30000).  Boxes are integer pixel boxes <<x1, y1, x2, y2>>.   *)
(* The boxes fed to the model have even coordinate sums and centroids on   *)
(* one 3-4-5 line, so (x1 + x2) / 2.0 and math.sqrt are exact integers.    *)
(* Confidences are kept in hundredths (0.9 is 90).                         *)
(***************************************************************************)
EXTENDS Integers, Sequences, FiniteSets, TLC

VARIABLES
    id_mapper,              \* global dict bytetrack id -> clean id
    next_clean_id,          \* global counter
    first_seen,             \* history: raw ids in order of their first get_clean_pig_id call since the last reset
    assigned,               \* history: per session, the <<raw id, clean id>> pairs get_clean_pig_id returned to it
    batch_pc,               \* analyze_video: "idle", "running", "done", "error"
    cap_opened,             \* cap.isOpened()
    fps,                    \* local fps (thousandths)
    frames_per_interval,
    idle_limit,             \* local IDLE_FRAMES_FOR_LETHARGY
    behavior_counts,
    pig_behavior_history,
    track_history,
    idle_frames,
    lethargic_pigs,
    displacement_history,
    limping_pigs,
    time_series,
    interval_pig_behaviors,
    interval_pig_ids,
    interval_lethargic_ids,
    interval_limping_ids,
    current_interval,
    frame_count,
    results,                \* detections of the frame read last (empty when the frame was not analyzed)
    report,                 \* return value of analyze_video_data / response of /analyze-video
    ws_state,               \* per connection: "idle" (not yet connected), "open", "closed"
    ws_frame_count,         \* per connection: local frame_count of live_stream
    ws_response,            \* per connection: the message sent last
    live_response,          \* the response of the last /live-detect request
    video                   \* the input medium of a scripted analysis (unused when frames are free)

idVars == <<id_mapper, next_clean_id, first_seen, assigned>>
trackVars == <<behavior_counts, pig_behavior_history, track_history, idle_frames,
               lethargic_pigs, displacement_history, limping_pigs>>
intervalVars == <<time_series, interval_pig_behaviors, interval_pig_ids,
                  interval_lethargic_ids, interval_limping_ids, current_interval>>
batchVars == <<batch_pc, cap_opened, fps, frames_per_interval, idle_limit, trackVars,
               intervalVars, frame_count, results, report>>
wsVars == <<ws_state, ws_frame_count, ws_response, live_response>>
vars == <<idVars, batchVars, wsVars, video>>

----------------------------------------------------------------------------
(* Program constants *)

BEHAVIOR_CLASSES ==
    <<"Drinking", "Eating", "Investigating", "Lying", "Moutend", "Sleeping", "Walking">>
INTERVAL_SECONDS == 2
MOVEMENT_THRESHOLD == 10
RESTING_BEHAVIORS == {"Lying", "Sleeping"}
LIMP_MEAN_MIN == 3
LIMP_VARIANCE_THRESHOLD == 30
LIMP_MIN_SAMPLES == 10
TRACK_HISTORY_MAXLEN == 15
DISPLACEMENT_MAXLEN == 20
FRAME_STRIDE == 5
DEFAULT_FPS == 30000
LETHARGY_STRIDE == 5
LETHARGY_SECONDS == 10
WS_MIN_BOX_AREA == 100
LIVE_MIN_BOX_AREA == 1000
DEFAULT_MAX_PIGS == 20
NO_PIG == "No Pig Detected"
None == "None"

----------------------------------------------------------------------------
(* Bounds and input sets *)

MaxFrames == 16         \* raw frames read by one analysis with free frames
MaxWsFrames == 3        \* messages received on one connection
MaxServerFrames == 5    \* raw frames of the video analysed while other requests are served
MaxServerWsFrames == 2  \* messages received on one connection while other requests are served
MaxScriptFrames == 130  \* raw frames of a scripted video at 30 fps
MaxGaitFrames == 60     \* raw frames of a scripted video of one walking pig
MaxReplayFrames == 15   \* raw frames of a video that is also streamed

Sessions == {"ws1", "ws2", "batch", "live"}
WsSessions == {"ws1", "ws2"}

\* centroids (10,10), (13,14), (34,42), (37,46): distances 5, 35, 40, 45
BoxA == <<0, 0, 20, 20>>
BoxB == <<3, 4, 23, 24>>
BoxC == <<24, 32, 44, 52>>
BoxD == <<27, 36, 47, 56>>
BoxEmpty == <<13, 4, 13, 24>>   \* x1 = x2: the crop is empty; centroid (13,14)
BoxTiny == <<8, 8, 12, 12>>     \* area 16; centroid (10,10)

\* one detection of a frame: the tracker's id, box and confidence, and what the
\* classifier answers for its crop (label and softmax score)
Det(id, box, conf, behavior, score) ==
    [id |-> id, box |-> box, conf |-> conf, behavior |-> behavior, score |-> score]

----------------------------------------------------------------------------
(* Helpers *)

Range(s) == {s[i] : i \in 1..Len(s)}

Abs(x) == IF x < 0 THEN -x ELSE x

RECURSIVE SumSeq(_)
SumSeq(s) == IF s = <<>> THEN 0 ELSE Head(s) + SumSeq(Tail(s))

RECURSIVE SumSqSeq(_)
SumSqSeq(s) == IF s = <<>> THEN 0 ELSE Head(s) * Head(s) + SumSqSeq(Tail(s))

\* deque(maxlen=n).append(x)
DequeAppendUnbounded(q, x, maxlen) == Append(q, x)

DequeAppend(q, x, maxlen) ==
    IF Len(q) >= maxlen THEN Append(Tail(q), x) ELSE Append(q, x)

\* insertion of x into an ascending sequence
RECURSIVE InsertSorted(_, _)
InsertSorted(s, x) ==
    IF s = <<>> THEN <<x>>
    ELSE IF x < Head(s) THEN <<x>> \o s
    ELSE <<Head(s)>> \o InsertSorted(Tail(s), x)

RECURSIVE SortAscending(_)
SortAscending(s) ==
    IF s = <<>> THEN <<>> ELSE InsertSorted(SortAscending(Tail(s)), Head(s))

\* list(S) of a set of ints: some enumeration of S; the largest first here
RECURSIVE ListOfSet(_)
ListOfSet(S) ==
    IF S = {} THEN <<>>
    ELSE LET m == CHOOSE x \in S : \A y \in S : y <= x
         IN <<m>> \o ListOfSet(S \ {m})

UnsortedList(s) == s

\* sorted(pigs)
Sorted(s) == SortAscending(s)

TimeLabelOfIndex(n) == ToString(n \div 2) \o "s"

\* f"{n}s"
TimeLabel(n) == ToString(n) \o "s"

----------------------------------------------------------------------------
(* Insertion-ordered dicts: sequences of [key, value] in order of first insertion *)

DictKeys(d) == {d[i].key : i \in 1..Len(d)}

DictValueForgotten(d, k, default) == default

DictValue(d, k, default) ==
    IF \E i \in 1..Len(d) : d[i].key = k
    THEN d[CHOOSE i \in 1..Len(d) : d[i].key = k].value
    ELSE default

DictSetAppending(d, k, v) == Append(d, [key |-> k, value |-> v])

\* d[k] = v: an existing key keeps its place
DictSet(d, k, v) ==
    IF k \in DictKeys(d)
    THEN [i \in 1..Len(d) |-> IF d[i].key = k THEN [key |-> k, value |-> v] ELSE d[i]]
    ELSE Append(d, [key |-> k, value |-> v])

\* max(d, key=d.get): the first key, in iteration order, whose value is maximal
MaxKey(d) ==
    LET best == CHOOSE i \in 1..Len(d) :
                    /\ \A j \in 1..Len(d) : d[j].value <= d[i].value
                    /\ \A j \in 1..(i - 1) : d[j].value < d[i].value
    IN d[best].key

----------------------------------------------------------------------------
(* ID MAPPING *)

EmptyMap == [r \in {} |-> 0]

GetCleanPigIdBroken(m, bytetrack_id) ==
    [map |-> (bytetrack_id :> m.next) @@ m.map, next |-> m.next + 1, id |-> m.next]

\* get_clean_pig_id on the globals m = [map, next]: the globals afterwards and the id returned
GetCleanPigId(m, bytetrack_id) ==
    IF bytetrack_id \notin DOMAIN m.map
    THEN [map |-> m.map @@ (bytetrack_id :> m.next), next |-> m.next + 1, id |-> m.next]
    ELSE [map |-> m.map, next |-> m.next, id |-> m.map[bytetrack_id]]

\* history kept beside a get_clean_pig_id call
NoteFirstSeen(seen, bytetrack_id) ==
    IF bytetrack_id \in Range(seen) THEN seen ELSE Append(seen, bytetrack_id)

\* reset_id_mapper
ResetIdMapper ==
    /\ id_mapper' = EmptyMap
    /\ next_clean_id' = 1
    /\ first_seen' = <<>>

----------------------------------------------------------------------------
(* analyze_video_data: derived parameters *)

\* fps = cap.get(cv2.CAP_PROP_FPS) or 30
FpsOrDefault(raw_fps) == IF raw_fps = 0 THEN DEFAULT_FPS ELSE raw_fps

\* int(fps * INTERVAL_SECONDS)
FramesPerInterval(f) == (f * INTERVAL_SECONDS) \div 1000

\* int((fps / 5) * 10)
IdleFramesForLethargy(f) == (f * LETHARGY_SECONDS) \div (LETHARGY_STRIDE * 1000)

\* cx = (x1 + x2) / 2.0, cy = (y1 + y2) / 2.0
Centroid(box) == <<(box[1] + box[3]) \div 2, (box[2] + box[4]) \div 2>>

\* pig_crop = frame[y1:y2, x1:x2]; pig_crop.size
CropSize(box) ==
    IF box[3] > box[1] /\ box[4] > box[2] THEN (box[3] - box[1]) * (box[4] - box[2]) ELSE 0

\* math.sqrt((cx - px)**2 + (cy - py)**2)
Displacement(c, p) ==
    LET dx == Abs(c[1] - p[1])
        dy == Abs(c[2] - p[2])
        sq == dx * dx + dy * dy
    IN CHOOSE r \in 0..(dx + dy) : r * r <= sq /\ (r + 1) * (r + 1) > sq

\* mean_disp > LIMP_MEAN_MIN, with mean_disp = sum / len
MeanAbove(displacements) ==
    SumSeq(displacements) > LIMP_MEAN_MIN * Len(displacements)

\* variance > LIMP_VARIANCE_THRESHOLD, with the population variance
\* sum((d - mean)**2) / len = (len * sum(d*d) - sum(d)**2) / len**2
VarianceAbove(displacements) ==
    LET n == Len(displacements)
        s == SumSeq(displacements)
    IN n * SumSqSeq(displacements) - s * s > LIMP_VARIANCE_THRESHOLD * n * n

LimpingGaitLoose(current_behavior, displacements) ==
    /\ current_behavior = "Walking"
    /\ Len(displacements) >= LIMP_MIN_SAMPLES
    /\ MeanAbove(displacements)

\* the test of lines 159-163
LimpingGait(current_behavior, displacements) ==
    /\ current_behavior = "Walking"
    /\ Len(displacements) >= LIMP_MIN_SAMPLES
    /\ MeanAbove(displacements)
    /\ VarianceAbove(displacements)

IdleObservationLoose(displacement, current_behavior) ==
    displacement < MOVEMENT_THRESHOLD

\* displacement < MOVEMENT_THRESHOLD and not is_resting
IdleObservation(displacement, current_behavior) ==
    displacement < MOVEMENT_THRESHOLD /\ current_behavior \notin RESTING_BEHAVIORS

LethargyReachedLate(idle, limit) == idle > limit

\* idle_frames[clean_id] >= IDLE_FRAMES_FOR_LETHARGY
LethargyReached(idle, limit) == idle >= limit

----------------------------------------------------------------------------
(* defaultdicts keyed by clean id: functions whose domain is the set of keys *)

EmptyDict == [k \in {} |-> 0]

At(f, k, default) == IF k \in DOMAIN f THEN f[k] ELSE default

Put(f, k, v) == (k :> v) @@ f

AddFlagWhileRaised(flags, clean_id, raised) ==
    IF raised THEN flags \cup {clean_id} ELSE flags \ {clean_id}

\* if <raised>: flags.add(clean_id)
AddFlag(flags, clean_id, raised) ==
    IF raised THEN flags \cup {clean_id} ELSE flags

----------------------------------------------------------------------------
(* analyze_video_data: the body of the detection loop, lines 127-165 *)

\* L holds the globals of the id mapper and the locals the loop writes
ProcessDetection(L, det) ==
    LET got == GetCleanPigId([map |-> L.id_mapper, next |-> L.next_clean_id], det.id)
        clean_id == got.id
        c == Centroid(det.box)
        classified == CropSize(det.box) > 0
        current_behavior == IF classified THEN det.behavior ELSE None
        history == At(L.pig_behavior_history, clean_id, <<>>)
        positions == At(L.track_history, clean_id, <<>>)
        has_prev == positions /= <<>>
        prev_pos == IF has_prev THEN positions[Len(positions)] ELSE <<0, 0>>
        displacement == Displacement(c, prev_pos)
        displacements ==
            DequeAppend(At(L.displacement_history, clean_id, <<>>), displacement,
                        DISPLACEMENT_MAXLEN)
        idle == IF IdleObservation(displacement, current_behavior)
                THEN At(L.idle_frames, clean_id, 0) + 1
                ELSE 0
        lethargic == LethargyReached(idle, L.idle_limit)
        limping == LimpingGait(current_behavior, displacements)
        L1 == [L EXCEPT
                 !.id_mapper = got.map,
                 !.next_clean_id = got.next,
                 !.first_seen = NoteFirstSeen(L.first_seen, det.id),
                 !.pairs = L.pairs \cup {<<det.id, clean_id>>},
                 !.interval_pig_ids = L.interval_pig_ids \cup {clean_id}]
        L2 == IF classified
              THEN [L1 EXCEPT
                      !.behavior_counts[current_behavior] = @ + 1,
                      !.pig_behavior_history =
                          Put(@, clean_id,
                              DictSet(history, current_behavior,
                                      DictValue(history, current_behavior, 0) + 1)),
                      !.interval_pig_behaviors = DictSet(@, clean_id, current_behavior)]
              ELSE L1
        L3 == [L2 EXCEPT
                 !.track_history =
                     Put(@, clean_id, DequeAppend(positions, c, TRACK_HISTORY_MAXLEN))]
    IN IF ~has_prev THEN L3
       ELSE [L3 EXCEPT
               !.displacement_history = Put(@, clean_id, displacements),
               !.idle_frames = Put(@, clean_id, idle),
               !.lethargic_pigs = AddFlag(@, clean_id, lethargic),
               !.interval_lethargic_ids = AddFlag(@, clean_id, lethargic),
               !.limping_pigs = AddFlag(@, clean_id, limping),
               !.interval_limping_ids = AddFlag(@, clean_id, limping)]

\* for box, bytetrack_id in zip(boxes, bytetrack_ids)
RECURSIVE ProcessDetections(_, _)
ProcessDetections(L, dets) ==
    IF dets = <<>> THEN L
    ELSE ProcessDetections(ProcessDetection(L, Head(dets)), Tail(dets))

----------------------------------------------------------------------------
(* analyze_video_data: closing a bucket, lines 99-114 and 168-183 *)

\* behavior_summary[behavior].append(pig_id), over interval_pig_behaviors.items()
RECURSIVE BehaviorSummary(_, _)
BehaviorSummary(items, summary) ==
    IF items = <<>> THEN summary
    ELSE LET pig_id == Head(items).key
             behavior == Head(items).value
         IN BehaviorSummary(Tail(items),
                DictSet(summary, behavior,
                        Append(DictValue(summary, behavior, <<>>), pig_id)))

\* the dict comprehension of "behavior_breakdown"
BehaviorBreakdown(summary) ==
    [i \in 1..Len(summary) |->
        [behavior |-> summary[i].key,
         count |-> Len(summary[i].value),
         pig_ids |-> Sorted(summary[i].value)]]

SortedIdsUnsorted(S) == ListOfSet(S)

\* sorted(list(interval_lethargic_ids))
SortedIds(S) == Sorted(ListOfSet(S))

\* the dict appended to time_series
Bucket(interval, pig_ids, pig_behaviors, lethargic_ids, limping_ids) ==
    [time |-> TimeLabel(interval * INTERVAL_SECONDS),
     pig_count |-> Cardinality(pig_ids),
     behavior_breakdown |-> BehaviorBreakdown(BehaviorSummary(pig_behaviors, <<>>)),
     lethargy |-> Cardinality(lethargic_ids) > 0,
     lethargic_ids |-> SortedIds(lethargic_ids),
     limping |-> Cardinality(limping_ids) > 0,
     limping_ids |-> SortedIds(limping_ids)]

BoundaryEveryFrame(count, per_interval) == count > 0

BoundaryAfterFrame(count, per_interval) == count > 1 /\ (count - 1) % per_interval = 0

\* frame_count > 0 and frame_count % frames_per_interval == 0
AtBoundary(count, per_interval) == count > 0 /\ count % per_interval = 0

AnalyzedEveryFrame(count) == TRUE

\* frame_count % 5 != 0: continue
Analyzed(count) == count % FRAME_STRIDE = 0


----------------------------------------------------------------------------
(* analyze_video_data: the report, lines 186-206 *)

\* pig_summaries, sorted by pig_id
PigSummaries(history, lethargic, limping) ==
    LET ids == SortAscending(ListOfSet(DOMAIN history))
    IN [i \in 1..Len(ids) |->
          [pig_id |-> ids[i],
           predominant_behavior |-> MaxKey(history[ids[i]]),
           behavior_counts |-> history[ids[i]],
           is_lethargic |-> ids[i] \in lethargic,
           is_limping |-> ids[i] \in limping]]

\* behavior_counts as the dict built at line 73, in BEHAVIOR_CLASSES order
CountsDict(counts) ==
    [i \in 1..Len(BEHAVIOR_CLASSES) |->
        [key |-> BEHAVIOR_CLASSES[i], value |-> counts[BEHAVIOR_CLASSES[i]]]]

MostCommonUnguarded(counts) == MaxKey(CountsDict(counts))

\* max(behavior_counts, key=behavior_counts.get) if sum(...) > 0 else "No Pig Detected"
MostCommon(counts) ==
    IF SumSeq([i \in 1..Len(BEHAVIOR_CLASSES) |-> counts[BEHAVIOR_CLASSES[i]]]) > 0
    THEN MaxKey(CountsDict(counts))
    ELSE NO_PIG

Report(counts, history, lethargic, limping, series) ==
    [status |-> "success",
     primary_behavior |-> MostCommon(counts),
     overall_behavior_counts |-> counts,
     total_unique_pigs |-> Cardinality(DOMAIN history),
     pig_summaries |-> PigSummaries(history, lethargic, limping),
     lethargy_flags |-> Cardinality(lethargic),
     limping_flags |-> Cardinality(limping),
     time_series |-> series]

----------------------------------------------------------------------------
(* State after start-up: no request has been served *)

NoCounts == [b \in Range(BEHAVIOR_CLASSES) |-> 0]

InitWith(v) ==
    /\ video = v
    /\ id_mapper = EmptyMap
    /\ next_clean_id = 1
    /\ first_seen = <<>>
    /\ assigned = [s \in Sessions |-> {}]
    /\ batch_pc = "idle"
    /\ cap_opened = FALSE
    /\ fps = 0
    /\ frames_per_interval = 0
    /\ idle_limit = 0
    /\ behavior_counts = NoCounts
    /\ pig_behavior_history = EmptyDict
    /\ track_history = EmptyDict
    /\ idle_frames = EmptyDict
    /\ lethargic_pigs = {}
    /\ displacement_history = EmptyDict
    /\ limping_pigs = {}
    /\ time_series = <<>>
    /\ interval_pig_behaviors = <<>>
    /\ interval_pig_ids = {}
    /\ interval_lethargic_ids = {}
    /\ interval_limping_ids = {}
    /\ current_interval = 0
    /\ frame_count = 0
    /\ results = <<>>
    /\ report = [status |-> "none"]
    /\ ws_state = [s \in WsSessions |-> "idle"]
    /\ ws_frame_count = [s \in WsSessions |-> 0]
    /\ ws_response = [s \in WsSessions |-> [kind |-> "none"]]
    /\ live_response = [kind |-> "none"]

----------------------------------------------------------------------------
(* POST /analyze-video: analyze_video_data, lines 67-206 *)

\* lines 68-91
BatchStart ==
    /\ batch_pc = "idle"
    /\ batch_pc' = "running"
    /\ ResetIdMapper
    /\ assigned' = [assigned EXCEPT !["batch"] = {}]
    /\ cap_opened' = video.opened
    /\ fps' = FpsOrDefault(video.fps)
    /\ frames_per_interval' = FramesPerInterval(FpsOrDefault(video.fps))
    /\ idle_limit' = IdleFramesForLethargy(FpsOrDefault(video.fps))
    /\ behavior_counts' = NoCounts
    /\ pig_behavior_history' = EmptyDict
    /\ track_history' = EmptyDict
    /\ idle_frames' = EmptyDict
    /\ lethargic_pigs' = {}
    /\ displacement_history' = EmptyDict
    /\ limping_pigs' = {}
    /\ time_series' = <<>>
    /\ interval_pig_behaviors' = <<>>
    /\ interval_pig_ids' = {}
    /\ interval_lethargic_ids' = {}
    /\ interval_limping_ids' = {}
    /\ current_interval' = 0
    /\ frame_count' = 0
    /\ results' = <<>>
    /\ UNCHANGED <<report, wsVars, video>>

\* the locals and globals the loop body reads and writes
Locals ==
    [id_mapper |-> id_mapper, next_clean_id |-> next_clean_id, first_seen |-> first_seen,
     pairs |-> assigned["batch"], idle_limit |-> idle_limit,
     behavior_counts |-> behavior_counts, pig_behavior_history |-> pig_behavior_history,
     track_history |-> track_history, idle_frames |-> idle_frames,
     lethargic_pigs |-> lethargic_pigs, displacement_history |-> displacement_history,
     limping_pigs |-> limping_pigs, interval_pig_behaviors |-> interval_pig_behaviors,
     interval_pig_ids |-> interval_pig_ids,
     interval_lethargic_ids |-> interval_lethargic_ids,
     interval_limping_ids |-> interval_limping_ids]

OpenNewBucketKeepingMembers(L) == L

\* lines 98-119 on L: the bucket is appended by the caller
OpenNewBucket(L) ==
    [L EXCEPT !.interval_pig_ids = {}, !.interval_pig_behaviors = <<>>,
              !.interval_lethargic_ids = {}, !.interval_limping_ids = {}]

\* one pass of the while loop with ret true, lines 94-165; dets is what the tracker
\* yields for the frame (empty: boxes or boxes.id is None)
BatchFrame(dets) ==
    /\ batch_pc = "running"
    /\ cap_opened
    /\ frame_count < video.limit
    /\ frame_count' = frame_count + 1
    /\ IF frames_per_interval = 0
       THEN \* ZeroDivisionError at line 98, caught at line 251
            /\ batch_pc' = "error"
            /\ report' = [status |-> "error"]
            /\ UNCHANGED <<idVars, cap_opened, fps, frames_per_interval, idle_limit,
                           trackVars, intervalVars, results>>
       ELSE LET count == frame_count + 1
                boundary == AtBoundary(count, frames_per_interval)
                flushed == IF boundary THEN OpenNewBucket(Locals) ELSE Locals
                analyzed == Analyzed(count)
                L == IF analyzed THEN ProcessDetections(flushed, dets) ELSE flushed
            IN /\ time_series' =
                      IF boundary
                      THEN Append(time_series,
                                  Bucket(current_interval, interval_pig_ids,
                                         interval_pig_behaviors, interval_lethargic_ids,
                                         interval_limping_ids))
                      ELSE time_series
               /\ current_interval' = IF boundary THEN current_interval + 1
                                                  ELSE current_interval
               /\ results' = IF analyzed THEN dets ELSE <<>>
               /\ id_mapper' = L.id_mapper
               /\ next_clean_id' = L.next_clean_id
               /\ first_seen' = L.first_seen
               /\ assigned' = [assigned EXCEPT !["batch"] = L.pairs]
               /\ behavior_counts' = L.behavior_counts
               /\ pig_behavior_history' = L.pig_behavior_history
               /\ track_history' = L.track_history
               /\ idle_frames' = L.idle_frames
               /\ lethargic_pigs' = L.lethargic_pigs
               /\ displacement_history' = L.displacement_history
               /\ limping_pigs' = L.limping_pigs
               /\ interval_pig_behaviors' = L.interval_pig_behaviors
               /\ interval_pig_ids' = L.interval_pig_ids
               /\ interval_lethargic_ids' = L.interval_lethargic_ids
               /\ interval_limping_ids' = L.interval_limping_ids
               /\ UNCHANGED <<batch_pc, cap_opened, fps, frames_per_interval, idle_limit,
                              report>>
    /\ UNCHANGED <<wsVars, video>>

\* the loop ends (cap not opened, or ret false): lines 167-206 and 240-250
BatchEnd ==
    /\ batch_pc = "running"
    /\ batch_pc' = "done"
    /\ LET series ==
               IF interval_pig_ids /= {}
               THEN Append(time_series,
                           Bucket(current_interval, interval_pig_ids,
                                  interval_pig_behaviors, interval_lethargic_ids,
                                  interval_limping_ids))
               ELSE time_series
       IN /\ time_series' = series
          /\ report' = Report(behavior_counts, pig_behavior_history, lethargic_pigs,
                              limping_pigs, series)
    /\ UNCHANGED <<idVars, cap_opened, fps, frames_per_interval, idle_limit, trackVars,
                   interval_pig_behaviors, interval_pig_ids, interval_lethargic_ids,
                   interval_limping_ids, current_interval, frame_count, results, wsVars,
                   video>>

\* what the tracker may yield for the next frame read from the video
NextFrameInputs ==
    IF ~Analyzed(frame_count + 1) THEN {<<>>}
    ELSE IF video.kind = "script"
         THEN {video.pattern[(((frame_count + 1) \div FRAME_STRIDE - 1) % Len(video.pattern)) + 1]}
         ELSE video.inputs

NextBatch ==
    \/ BatchStart
    \/ \E dets \in NextFrameInputs : BatchFrame(dets)
    \/ BatchEnd

----------------------------------------------------------------------------
(* Inputs of the analysis of one video with free frames *)

LabelInputs == {"Eating", "Lying", "Walking"}

OnePigFrames ==
    {<<Det(7, box, 90, b, 80)>> : box \in {BoxA, BoxB, BoxC}, b \in LabelInputs}
        \cup {<<Det(7, BoxEmpty, 90, "Eating", 80)>>}

TwoPigFrames ==
    {<<Det(9, BoxA, 90, "Eating", 80), Det(7, BoxA, 80, "Eating", 80)>>,
     <<Det(7, BoxA, 90, "Walking", 80), Det(9, BoxB, 80, "Lying", 80)>>,
     <<Det(7, BoxB, 90, "Eating", 80), Det(9, BoxEmpty, 80, "Eating", 80)>>,
     <<Det(7, BoxA, 90, "Eating", 80), Det(9, BoxA, 80, "Eating", 80)>>}

FreeFrames == {<<>>} \cup OnePigFrames \cup TwoPigFrames

\* frame rates 0.5, 1 and 2.5 fps: intervals of 1, 2 and 5 raw frames
SlowRates == {500, 1000, 2500}

FreeVideo(rate, opened, limit, inputs) ==
    [kind |-> "free", fps |-> rate, opened |-> opened, limit |-> limit,
     pattern |-> <<>>, inputs |-> inputs]

ScriptVideo(rate, limit, pattern) ==
    [kind |-> "script", fps |-> rate, opened |-> TRUE, limit |-> limit,
     pattern |-> pattern, inputs |-> {}]

BatchVideos ==
    {FreeVideo(rate, TRUE, MaxFrames, FreeFrames) : rate \in SlowRates}
        \cup {FreeVideo(0, FALSE, MaxFrames, FreeFrames)}

InitBatch == \E v \in BatchVideos : InitWith(v)

SpecBatch == InitBatch /\ [][NextBatch]_vars

----------------------------------------------------------------------------
(* /ws/live-stream: live_stream, lines 353-495 *)

\* insertion of d into a sequence sorted by descending conf, after its equals
RECURSIVE InsertByConf(_, _)
InsertByConf(s, d) ==
    IF s = <<>> THEN <<d>>
    ELSE IF d.conf > Head(s).conf THEN <<d>> \o s
    ELSE <<Head(s)>> \o InsertByConf(Tail(s), d)

\* sorted(zip(...), key=lambda x: x[2], reverse=True): stable
RECURSIVE SortByConfDesc(_)
SortByConfDesc(s) ==
    IF s = <<>> THEN <<>>
    ELSE InsertByConf(SortByConfDesc(SubSeq(s, 1, Len(s) - 1)), s[Len(s)])

\* s[:n]
Slice(s, n) ==
    IF n >= 0
    THEN SubSeq(s, 1, IF n < Len(s) THEN n ELSE Len(s))
    ELSE SubSeq(s, 1, IF Len(s) + n > 0 THEN Len(s) + n ELSE 0)

PigDataUnranked(dets, max_pigs) == Slice(dets, max_pigs)

\* pig_data of lines 427-431
PigData(dets, max_pigs) == Slice(SortByConfDesc(dets), max_pigs)

\* the body of the loop of lines 433-450 on W = [id_mapper, next_clean_id, first_seen,
\* pairs, batch]; batch pairs box_data_for_batch with the classifier's answer for the roi
WsCandidate(W, det) ==
    LET got == GetCleanPigId([map |-> W.id_mapper, next |-> W.next_clean_id], det.id)
        W1 == [W EXCEPT !.id_mapper = got.map,
                        !.next_clean_id = got.next,
                        !.first_seen = NoteFirstSeen(W.first_seen, det.id),
                        !.pairs = W.pairs \cup {<<det.id, got.id>>}]
    IN IF CropSize(det.box) > 0 /\ CropSize(det.box) >= WS_MIN_BOX_AREA
       THEN [W1 EXCEPT !.batch =
                Append(@, [box |-> det.box, behavior |-> det.behavior,
                           confidence |-> det.score, pig_id |-> got.id])]
       ELSE W1

RECURSIVE WsCandidates(_, _)
WsCandidates(W, pig_data) ==
    IF pig_data = <<>> THEN W
    ELSE WsCandidates(WsCandidate(W, Head(pig_data)), Tail(pig_data))

ErrorResponseNotSent(text) == [kind |-> "none"]

\* ws.send(json.dumps({"error": ...}))
ErrorResponse(text) == [kind |-> "error", error |-> text]

\* lines 353-362: the connection is accepted
WsConnect(s) ==
    /\ ws_state[s] = "idle"
    /\ ws_state' = [ws_state EXCEPT ![s] = "open"]
    /\ ResetIdMapper
    /\ assigned' = [assigned EXCEPT ![s] = {}]
    /\ ws_frame_count' = [ws_frame_count EXCEPT ![s] = 0]
    /\ UNCHANGED <<batchVars, ws_response, live_response, video>>

\* one pass of the receive loop with a non-empty message, lines 366-490
WsFrame(s, msg, limit) ==
    /\ ws_state[s] = "open"
    /\ ws_frame_count[s] < limit
    /\ ws_frame_count' = [ws_frame_count EXCEPT ![s] = @ + 1]
    /\ LET W0 == [id_mapper |-> id_mapper, next_clean_id |-> next_clean_id,
                  first_seen |-> first_seen, pairs |-> assigned[s], batch |-> <<>>]
           W == IF msg.kind = "frame"
                THEN WsCandidates(W0, PigData(msg.dets, msg.max_pigs))
                ELSE W0
           raised == msg.kind = "frame" /\ W.batch /= <<>> /\ msg.predict_raises
       IN /\ id_mapper' = W.id_mapper
          /\ next_clean_id' = W.next_clean_id
          /\ first_seen' = W.first_seen
          /\ assigned' = [assigned EXCEPT ![s] = W.pairs]
          /\ ws_response' = [ws_response EXCEPT ![s] =
                IF msg.kind = "bad_json" THEN ErrorResponse("exception")
                ELSE IF msg.kind = "no_frame" THEN ErrorResponse("No frame data")
                ELSE IF msg.kind = "undecodable" THEN ErrorResponse("Could not decode image")
                ELSE IF raised THEN ErrorResponse("exception")
                ELSE [kind |-> "detections",
                      detections |-> W.batch,
                      total_tracked_pigs |-> Cardinality(DOMAIN W.id_mapper),
                      frame_count |-> ws_frame_count[s] + 1]]
    /\ UNCHANGED <<batchVars, ws_state, live_response, video>>

\* ws.receive() yields nothing: break, lines 367-368 and 494-495
WsClose(s) ==
    /\ ws_state[s] = "open"
    /\ ws_state' = [ws_state EXCEPT ![s] = "closed"]
    /\ UNCHANGED <<idVars, batchVars, ws_frame_count, ws_response, live_response, video>>

----------------------------------------------------------------------------
(* POST /live-detect and POST /reset-tracking, lines 280-350 *)

\* the body of the loop of lines 309-329
LiveCandidate(W, det) ==
    LET got == GetCleanPigId([map |-> W.id_mapper, next |-> W.next_clean_id], det.id)
        W1 == [W EXCEPT !.id_mapper = got.map,
                        !.next_clean_id = got.next,
                        !.first_seen = NoteFirstSeen(W.first_seen, det.id),
                        !.pairs = W.pairs \cup {<<det.id, got.id>>}]
    IN IF CropSize(det.box) > 0 /\ CropSize(det.box) >= LIVE_MIN_BOX_AREA
       THEN [W1 EXCEPT !.batch =
                Append(@, [box |-> det.box, behavior |-> det.behavior,
                           confidence |-> det.score, pig_id |-> got.id])]
       ELSE W1

RECURSIVE LiveCandidates(_, _)
LiveCandidates(W, dets) ==
    IF dets = <<>> THEN W
    ELSE LiveCandidates(LiveCandidate(W, Head(dets)), Tail(dets))

\* live_detect on a readable image
LiveDetect(dets) ==
    /\ LET W == LiveCandidates(
                    [id_mapper |-> id_mapper, next_clean_id |-> next_clean_id,
                     first_seen |-> first_seen, pairs |-> assigned["live"],
                     batch |-> <<>>], dets)
       IN /\ id_mapper' = W.id_mapper
          /\ next_clean_id' = W.next_clean_id
          /\ first_seen' = W.first_seen
          /\ assigned' = [assigned EXCEPT !["live"] = W.pairs]
          /\ live_response' = [kind |-> "detections",
                               detections |-> W.batch,
                               total_tracked_pigs |-> Cardinality(DOMAIN W.id_mapper)]
    /\ UNCHANGED <<batchVars, ws_state, ws_frame_count, ws_response, video>>

\* reset_tracking
ResetTracking ==
    /\ ResetIdMapper
    /\ assigned' = [assigned EXCEPT !["live"] = {}]
    /\ UNCHANGED <<batchVars, wsVars, video>>

----------------------------------------------------------------------------
(* The server: one video analysis, two stream connections, /live-detect and
   /reset-tracking requests, interleaved frame by frame and request by request *)

Msg(kind, dets, max_pigs, predict_raises) ==
    [kind |-> kind, dets |-> dets, max_pigs |-> max_pigs, predict_raises |-> predict_raises]

ServerFrames ==
    {<<Det(9, BoxA, 90, "Eating", 80), Det(7, BoxB, 80, "Walking", 80)>>}

ServerMessages ==
    {Msg("frame", <<Det(7, BoxA, 90, "Eating", 80)>>, DEFAULT_MAX_PIGS, FALSE),
     Msg("frame", <<Det(9, BoxA, 90, "Eating", 80)>>, DEFAULT_MAX_PIGS, FALSE)}

LiveFrames ==
    {<<Det(7, BoxC, 90, "Eating", 80)>>}

Init == InitWith(FreeVideo(1000, TRUE, MaxServerFrames, ServerFrames))

Next ==
    \/ BatchStart
    \/ \E dets \in NextFrameInputs : BatchFrame(dets)
    \/ BatchEnd
    \/ \E s \in WsSessions : WsConnect(s)
    \/ \E s \in WsSessions : \E msg \in ServerMessages : WsFrame(s, msg, MaxServerWsFrames)
    \/ \E s \in WsSessions : WsClose(s)
    \/ \E dets \in LiveFrames : LiveDetect(dets)
    \/ ResetTracking

Spec == Init /\ [][Next]_vars

----------------------------------------------------------------------------
(* One stream connection on its own *)

StreamCandidates ==
    {<<>>,
     <<Det(7, BoxA, 90, "Eating", 80)>>,
     <<Det(4, BoxTiny, 90, "Eating", 80)>>,
     <<Det(9, BoxA, 60, "Lying", 70), Det(7, BoxB, 90, "Eating", 80)>>,
     <<Det(7, BoxEmpty, 90, "Eating", 80), Det(9, BoxB, 80, "Walking", 60),
       Det(4, BoxC, 70, "Lying", 90)>>}

\* max_pigs as sent by the client: int(data.get('max_pigs', 20)) accepts any integer
MaxPigsInputs == {DEFAULT_MAX_PIGS, 2, 1, 0, -1}

StreamMessages ==
    {Msg("frame", dets, n, r) : dets \in StreamCandidates, n \in MaxPigsInputs,
                                r \in BOOLEAN}
        \cup {Msg(k, <<>>, DEFAULT_MAX_PIGS, FALSE) :
                 k \in {"bad_json", "no_frame", "undecodable"}}

NextStream ==
    \/ WsConnect("ws1")
    \/ \E msg \in StreamMessages : WsFrame("ws1", msg, MaxWsFrames)
    \/ WsClose("ws1")

SpecStream == Init /\ [][NextStream]_vars

----------------------------------------------------------------------------
(* Claims about the id mapper *)

\* the <<raw id, clean id>> pairs of the mapper
MapPairs == {<<r, id_mapper[r]>> : r \in DOMAIN id_mapper}

\* C1: within one session the raw-to-clean map is a bijection from the raw ids seen
\* onto 1..k, clean ids follow the order of first appearance, every id returned to
\* the session is the one the raw id got first, and next_clean_id is k + 1.
C1_CleanIdsBijectInOrder ==
    ws_state["ws1"] /= "idle" =>
        /\ DOMAIN id_mapper = Range(first_seen)
        /\ Cardinality(DOMAIN id_mapper) = Len(first_seen)
        /\ \A i \in 1..Len(first_seen) : id_mapper[first_seen[i]] = i
        /\ next_clean_id = Len(first_seen) + 1
        /\ assigned["ws1"] = MapPairs

\* a frame that resolved only raw id 7, already mapped to 1, while a second raw id
\* had been mapped since: a repeated raw id
C1_Witness ==
    /\ ws_response["ws1"].kind = "detections"
    /\ Len(ws_response["ws1"].detections) = 1
    /\ ws_response["ws1"].detections[1].pig_id = 1
    /\ ws_response["ws1"].detections[1].box = BoxB
    /\ ws_response["ws1"].total_tracked_pigs = 3

\* what one session was told is a one-to-one map of its raw ids onto 1..k
SessionMapIsBijection(s) ==
    LET raws == {p[1] : p \in assigned[s]}
        cleans == {p[2] : p \in assigned[s]}
    IN /\ \A p, q \in assigned[s] : p[1] = q[1] => p[2] = q[2]
       /\ \A p, q \in assigned[s] : p[2] = q[2] => p[1] = q[1]
       /\ cleans = 1..Cardinality(raws)

\* C2: concurrent sessions are independent: the mapping of each stream connection
\* and of the video analysis stays a stable bijection of the raw ids that session
\* has seen onto 1..k, whatever the other sessions and requests do.
C2_SessionsIndependent ==
    \A s \in WsSessions \cup {"batch"} : SessionMapIsBijection(s)

\* C3: the reset operation clears the id mapping, the tracks, the behaviour tallies
\* and the time series, and the first raw id resolved afterwards gets clean id 1.
C3_ResetClearsSession ==
    [][ResetTracking =>
          /\ id_mapper' = EmptyMap
          /\ next_clean_id' = 1
          /\ track_history' = EmptyDict
          /\ idle_frames' = EmptyDict
          /\ displacement_history' = EmptyDict
          /\ lethargic_pigs' = {} /\ limping_pigs' = {}
          /\ behavior_counts' = NoCounts
          /\ pig_behavior_history' = EmptyDict
          /\ time_series' = <<>>]_vars

----------------------------------------------------------------------------
(* Scripted videos: the tracker's output repeats a pattern over the analysed frames *)

\* one pig, seen in a cycle of four boxes; it walks on every analysed frame, on
\* every second one, on all but every fourth, or never
GaitPatterns ==
    {[i \in 1..4 |-> <<Det(7, boxes[i], 90, labels[i], 80)>>] :
        boxes \in [1..4 -> {BoxA, BoxB, BoxC, BoxD}],
        labels \in {[i \in 1..4 |-> "Walking"], [i \in 1..4 |-> "Eating"],
                    [i \in 1..4 |-> IF i % 2 = 0 THEN "Walking" ELSE "Lying"],
                    [i \in 1..4 |-> IF i < 4 THEN "Walking" ELSE "Lying"]}}

\* at 1 fps: intervals of 2 raw frames, lethargy after 2 idle frames
InitGait == \E p \in GaitPatterns : InitWith(ScriptVideo(1000, MaxGaitFrames, p))

SpecGait == InitGait /\ [][NextBatch]_vars

\* pigs present on every analysed frame, at 30, 29.97, 25, 23.976, 2.5 and 0.4 fps; in
\* the third pattern a pig walks through three boxes beside one whose crop is empty
IntervalPatterns ==
    {<<<<Det(7, BoxA, 90, "Eating", 80)>>>>,
     <<<<Det(9, BoxA, 90, "Eating", 80), Det(7, BoxB, 80, "Walking", 80)>>,
       <<Det(7, BoxA, 90, "Lying", 80)>>>>,
     <<<<Det(7, BoxA, 90, "Walking", 80), Det(9, BoxEmpty, 80, "Eating", 80)>>,
       <<Det(7, BoxB, 90, "Walking", 80), Det(9, BoxEmpty, 80, "Eating", 80)>>,
       <<Det(7, BoxC, 90, "Walking", 80), Det(9, BoxEmpty, 80, "Eating", 80)>>>>}

IntervalRates == {30000, 29970, 25000, 23976, 2500, 400}

InitIntervals ==
    \E p \in IntervalPatterns : \E rate \in IntervalRates :
        InitWith(ScriptVideo(rate, MaxScriptFrames, p))

SpecIntervals == InitIntervals /\ [][NextBatch]_vars

----------------------------------------------------------------------------
(* The same observations analysed as a video and then streamed *)

\* two pigs on the first analysed frame, the second with the higher confidence
ReplayPatterns ==
    {<<<<Det(9, BoxA, 60, "Eating", 80), Det(7, BoxB, 90, "Walking", 80)>>>>,
     <<<<Det(9, BoxA, 60, "Eating", 80), Det(7, BoxB, 90, "Walking", 80)>>,
       <<Det(7, BoxA, 90, "Eating", 80)>>>>,
     <<<<Det(7, BoxA, 50, "Lying", 80), Det(9, BoxC, 80, "Eating", 80)>>, <<>>>>}

InitReplay ==
    \E p \in ReplayPatterns : \E rate \in SlowRates :
        InitWith(ScriptVideo(rate, MaxReplayFrames, p))

\* the number of analysed frames of the video read so far
AnalyzedCount == frame_count \div FRAME_STRIDE

\* the k-th analysed observation, sent as a stream message
ReplayMessage(k) ==
    Msg("frame", video.pattern[((k - 1) % Len(video.pattern)) + 1], DEFAULT_MAX_PIGS, FALSE)

NextReplay ==
    \/ BatchStart
    \/ \E dets \in NextFrameInputs : BatchFrame(dets)
    \/ BatchEnd
    \/ batch_pc = "done" /\ WsConnect("ws1")
    \/ WsFrame("ws1", ReplayMessage(ws_frame_count["ws1"] + 1), AnalyzedCount)
    \/ ws_frame_count["ws1"] = AnalyzedCount /\ WsClose("ws1")

SpecReplay == InitReplay /\ [][NextReplay]_vars

\* what the session of analyze_video_data holds
BatchSession ==
    [clean_ids |-> assigned["batch"],
     idle_frames |-> idle_frames,
     lethargic_pigs |-> lethargic_pigs,
     limping_pigs |-> limping_pigs,
     behavior_counts |-> behavior_counts,
     pig_behavior_history |-> pig_behavior_history,
     time_series |-> time_series]

\* what the session of live_stream holds: the id map and frame_count; it keeps no
\* tracks, no tallies and no buckets
StreamSession(s) ==
    [clean_ids |-> assigned[s],
     idle_frames |-> EmptyDict,
     lethargic_pigs |-> {},
     limping_pigs |-> {},
     behavior_counts |-> NoCounts,
     pig_behavior_history |-> EmptyDict,
     time_series |-> <<>>]

\* live_stream has no bucket of observed pigs and no position history
StreamObservedPigs(s) == {}
StreamTrackHistory(s) == EmptyDict

\* C4: driving live_stream frame by frame with a sequence of observations leaves the
\* session with the same clean-id map, idle counters, flags, tallies and buckets as
\* driving analyze_video_data with the same sequence of analysed observations.
C4_BatchStreamEquivalent ==
    (batch_pc = "done" /\ ws_state["ws1"] = "closed"
        /\ AnalyzedCount >= 1 /\ ws_frame_count["ws1"] = AnalyzedCount)
    => StreamSession("ws1") = BatchSession

----------------------------------------------------------------------------
(* Claims about the tracks of one analysis *)

\* a step of the loop that analyses the frame it reads; results' is what the tracker
\* yielded for it
AnalyzedStep ==
    /\ batch_pc = "running" /\ batch_pc' = "running"
    /\ frame_count' = frame_count + 1
    /\ frame_count' % 5 = 0

\* the label an observation carries: none when its crop is empty
ObservedBehavior(det) ==
    IF det.box[3] > det.box[1] /\ det.box[4] > det.box[2] THEN det.behavior ELSE None

\* the track was observed before this step
HasPrevious(c) == c \in DOMAIN track_history

\* the distance of an observation from the track's last centroid
ObservedDisplacement(det, c) ==
    Displacement(Centroid(det.box), track_history[c][Len(track_history[c])])

\* C5: the lethargic flag of a track is still false while its idle counter is below
\* idle_frames_for_lethargy, becomes true exactly on the frame on which the counter
\* reaches it, and on that frame the id is recorded in the open bucket's lethargic set.
C5_LethargyAtIdleLimit ==
    [][AnalyzedStep =>
        \A c \in DOMAIN track_history' :
            /\ (c \notin lethargic_pigs /\ c \in lethargic_pigs')
                   => (At(idle_frames', c, 0) = idle_limit
                       /\ c \in interval_lethargic_ids')
            /\ At(idle_frames', c, 0) >= idle_limit => c \in lethargic_pigs'
            /\ (c \notin lethargic_pigs /\ At(idle_frames', c, 0) < idle_limit)
                   => c \notin lethargic_pigs']_vars

\* at 1 fps (limit 2) a track has just reached the limit
C5_Witness ==
    /\ idle_limit = 2
    /\ \E c \in lethargic_pigs :
          /\ At(idle_frames, c, 0) = 2
          /\ c \in interval_lethargic_ids

\* C6 as stated: after every observation of a track its idle counter is 0 if the
\* displacement is >= 10 or the behaviour is a resting label, and otherwise its
\* previous value plus 1, the track's first observation included.
C6_IdleCounterRule ==
    [][AnalyzedStep =>
        \A i \in 1..Len(results') :
            LET det == results'[i]
                c == id_mapper'[det.id]
                moved == HasPrevious(c) /\ ObservedDisplacement(det, c) >= 10
                resting == ObservedBehavior(det) \in {"Lying", "Sleeping"}
            IN At(idle_frames', c, 0) =
                   IF moved \/ resting THEN 0 ELSE At(idle_frames, c, 0) + 1]_vars

\* C6 amended: the rule holds for every observation of a track that has a previous
\* centroid (a missing label counts as not resting); the first observation of a
\* track leaves its counter untouched at 0.
C6_IdleCounterRuleAfterFirst ==
    [][AnalyzedStep =>
        \A i \in 1..Len(results') :
            LET det == results'[i]
                c == id_mapper'[det.id]
                resting == ObservedBehavior(det) \in {"Lying", "Sleeping"}
            IN IF HasPrevious(c)
               THEN At(idle_frames', c, 0) =
                        IF ObservedDisplacement(det, c) >= 10 \/ resting
                        THEN 0
                        ELSE At(idle_frames, c, 0) + 1
               ELSE c \notin DOMAIN idle_frames']_vars

\* track 1 was idle on its second observation; track 2 has one observation, without
\* a label, and no counter
C6_Witness ==
    /\ At(idle_frames, 1, 0) = 1
    /\ 2 \in DOMAIN track_history /\ Len(track_history[2]) = 1
    /\ 2 \notin DOMAIN pig_behavior_history
    /\ 2 \notin DOMAIN idle_frames

\* C7: once a clean id is in the lethargic or the limping set no later frame removes
\* it, and the report's flag counts and per-pig flags are those sets.
C7_FlagsMonotonic ==
    [][batch_pc = "running" =>
        /\ lethargic_pigs \subseteq lethargic_pigs'
        /\ limping_pigs \subseteq limping_pigs'
        /\ batch_pc' = "done" =>
              /\ report'.lethargy_flags = Cardinality(lethargic_pigs)
              /\ report'.limping_flags = Cardinality(limping_pigs)
              /\ \A i \in 1..Len(report'.pig_summaries) :
                    LET p == report'.pig_summaries[i]
                    IN /\ p.is_lethargic = (p.pig_id \in lethargic_pigs)
                       /\ p.is_limping = (p.pig_id \in limping_pigs)]_vars

\* the pig was flagged lethargic and limping, then moved on a frame on which it
\* was not walking; the report still carries both flags
C7_Witness ==
    /\ batch_pc = "done"
    /\ report.lethargy_flags = 1 /\ report.limping_flags = 1
    /\ report.pig_summaries[1].is_lethargic /\ report.pig_summaries[1].is_limping
    /\ At(idle_frames, 1, 0) = 0
    /\ results /= <<>> /\ results[1].behavior = "Lying"

Fives == [i \in 1..10 |-> 5]
FivesAndForties == [i \in 1..10 |-> IF i % 2 = 1 THEN 5 ELSE 40]

\* C8: after a displacement is appended to a track's window the limping flag is set
\* on that frame iff the behaviour is "Walking", the window holds at least 10 values,
\* its mean is > 3.0 and its population variance is > 30.0; the window
\* 5,40,5,40,5,40,5,40,5,40 while walking sets it, ten times 5 leaves it unset.
C8_LimpingIff ==
    [][AnalyzedStep =>
        \A i \in 1..Len(results') :
            LET det == results'[i]
                c == id_mapper'[det.id]
                window == displacement_history'[c]
                n == Len(window)
                total == SumSeq(window)
                gait == /\ ObservedBehavior(det) = "Walking"
                        /\ n >= 10
                        /\ total > 3 * n
                        /\ n * SumSqSeq(window) - total * total > 30 * n * n
                open_before == IF frame_count' % frames_per_interval = 0
                               THEN {}
                               ELSE interval_limping_ids
            IN HasPrevious(c) =>
                 /\ window = Append(At(displacement_history, c, <<>>),
                                    ObservedDisplacement(det, c))
                      \/ Len(At(displacement_history, c, <<>>)) >= 20
                 /\ gait => (c \in limping_pigs' /\ c \in interval_limping_ids')
                 /\ ~gait => /\ (c \in limping_pigs') = (c \in limping_pigs)
                             /\ (c \in interval_limping_ids') = (c \in open_before)
                 /\ (window = FivesAndForties /\ ObservedBehavior(det) = "Walking")
                        => c \in limping_pigs'
                 /\ window = Fives => c \notin limping_pigs']_vars

\* the window of the walking pig is 5,40,...,5,40 and the flag was set on this frame
C8_Witness ==
    /\ At(displacement_history, 1, <<>>) = FivesAndForties
    /\ 1 \in limping_pigs
    /\ 1 \in interval_limping_ids
    /\ results /= <<>> /\ results[1].behavior = "Walking"

----------------------------------------------------------------------------
(* Claims about the time series *)

\* C9: N raw frames yield floor(N / frames_per_interval) buckets closed at the
\* boundaries plus at most one final flush; at 30 fps frames_per_interval is 60 and
\* 130 frames with pigs on every analysed frame yield exactly three entries, the
\* first two labelled "0s" and "2s".
C9_BucketCount ==
    /\ (batch_pc = "running" /\ frames_per_interval > 0)
           => Len(time_series) = frame_count \div frames_per_interval
    /\ (batch_pc = "done" /\ frames_per_interval > 0)
           => Len(time_series) =
                  (frame_count \div frames_per_interval)
                      + (IF interval_pig_ids /= {} THEN 1 ELSE 0)
    /\ (batch_pc = "done" /\ fps = 30000 /\ frame_count = 130)
           => /\ frames_per_interval = 60
              /\ Len(time_series) = 3
              /\ time_series[1].time = "0s"
              /\ time_series[2].time = "2s"
              /\ time_series[3].pig_count > 0

C9_Witness ==
    /\ batch_pc = "done" /\ fps = 30000 /\ frame_count = 130
    /\ Len(time_series) = 3

StrictlyAscending(s) == \A i \in 1..(Len(s) - 1) : s[i] < s[i + 1]

\* C10: in every bucket of the time series the pig_ids of every behaviour group,
\* lethargic_ids and limping_ids are strictly ascending, so free of duplicates.
C10_BucketIdListsAscending ==
    \A k \in 1..Len(time_series) :
        /\ StrictlyAscending(time_series[k].lethargic_ids)
        /\ StrictlyAscending(time_series[k].limping_ids)
        /\ \A g \in 1..Len(time_series[k].behavior_breakdown) :
               StrictlyAscending(time_series[k].behavior_breakdown[g].pig_ids)

\* the final bucket groups pigs 1 and 2 that were classified in the order 2, 1
C10_Witness ==
    /\ batch_pc = "done"
    /\ Len(interval_pig_behaviors) = 2
    /\ interval_pig_behaviors[1].key = 2 /\ interval_pig_behaviors[2].key = 1
    /\ time_series /= <<>>
    /\ \E g \in 1..Len(time_series[Len(time_series)].behavior_breakdown) :
           time_series[Len(time_series)].behavior_breakdown[g].pig_ids = <<1, 2>>

\* C11: at every point of an analysis the i-th entry of the time series (0-based)
\* carries the label i * 2 seconds ("0s", "2s", "4s", ...), none skipped or repeated,
\* windows without pigs and the final flush included.
C11_LabelsContiguous ==
    /\ \A i \in 1..Len(time_series) :
           time_series[i].time = ToString((i - 1) * 2) \o "s"
    /\ Len(time_series) >= 3 =>
           /\ time_series[1].time = "0s"
           /\ time_series[2].time = "2s"
           /\ time_series[3].time = "4s"
    /\ batch_pc = "running" => current_interval = Len(time_series)
    /\ batch_pc = "done" =>
           Len(time_series) = current_interval + (IF interval_pig_ids /= {} THEN 1 ELSE 0)

\* a window without pigs was closed as "2s" and the final flush is labelled "4s"
C11_Witness ==
    /\ batch_pc = "done"
    /\ Len(time_series) = 3
    /\ time_series[2].pig_count = 0
    /\ time_series[3].time = "4s" /\ time_series[3].pig_count > 0
    /\ current_interval = 2

\* the clean ids of the observations the tracker yielded for the frame just analysed
ObservedIds == {id_mapper[results[i].id] : i \in 1..Len(results)}

\* C12: a bucket appended to the time series is never changed by a later frame: the
\* series only grows by appending, and the observations of the frame on which a
\* bucket is closed go to the newly opened bucket only.
C12_ClosedBucketsFinal ==
    [][batch_pc = "running" =>
        /\ Len(time_series') >= Len(time_series)
        /\ SubSeq(time_series', 1, Len(time_series)) = time_series
        /\ Len(time_series') <= Len(time_series) + 1
        /\ (AnalyzedStep /\ Len(time_series') = Len(time_series) + 1) =>
              /\ time_series'[Len(time_series')].pig_count = Cardinality(interval_pig_ids)
              /\ time_series'[Len(time_series')].lethargic_ids
                     = SortAscending(ListOfSet(interval_lethargic_ids))
              /\ interval_pig_ids' = ObservedIds'
              /\ interval_lethargic_ids' \subseteq ObservedIds'
              /\ interval_limping_ids' \subseteq ObservedIds']_vars

\* a bucket was closed with one pig; a second pig was observed afterwards
C12_Witness ==
    /\ batch_pc = "running"
    /\ time_series /= <<>>
    /\ time_series[Len(time_series)].pig_count = 1
    /\ time_series[Len(time_series)].behavior_breakdown /= <<>>
    /\ interval_pig_ids = {1, 2}

----------------------------------------------------------------------------
(* Claims about one stream connection *)

\* the candidates of a message that rank strictly above d by detector confidence
RankedAbove(msg, d) == {i \in 1..Len(msg.dets) : msg.dets[i].conf > d.conf}

\* a record of the response comes from candidate d of the message
RecordOf(rec, d) == rec.box = d.box /\ rec.pig_id = id_mapper'[d.id]

\* C13: for any max_pigs sent by the client and any detector output the response holds
\* at most max_pigs records, each of one of the max_pigs highest-confidence
\* candidates and carrying its resolved clean id (a limit below 0 admits no record).
C13_AtMostMaxPigs ==
    [][\A msg \in StreamMessages :
          (msg.kind = "frame" /\ WsFrame("ws1", msg, MaxWsFrames)
              /\ ws_response'["ws1"].kind = "detections")
          => LET recs == ws_response'["ws1"].detections
             IN /\ Len(recs) <= (IF msg.max_pigs > 0 THEN msg.max_pigs ELSE 0)
                /\ \A i \in 1..Len(recs) :
                      \E k \in 1..Len(msg.dets) :
                          /\ RecordOf(recs[i], msg.dets[k])
                          /\ Cardinality(RankedAbove(msg, msg.dets[k])) < msg.max_pigs]_vars

----------------------------------------------------------------------------
(* Claims about the report *)

\* the place of a label in the lexical order of the labels (BEHAVIOR_CLASSES lists
\* them alphabetically)
LexicalRank(b) == CHOOSE i \in 1..Len(BEHAVIOR_CLASSES) : BEHAVIOR_CLASSES[i] = b

\* C14: the predominant behaviour of a pig summary has the maximum per-track count,
\* and among the labels sharing that maximum it is the lexically first, whatever the
\* order in which the labels were first observed for the pig.
C14_PredominantTieLexical ==
    batch_pc = "done" =>
        \A i \in 1..Len(report.pig_summaries) :
            LET p == report.pig_summaries[i]
                counts == p.behavior_counts
            IN \E j \in 1..Len(counts) :
                  /\ counts[j].key = p.predominant_behavior
                  /\ \A k \in 1..Len(counts) :
                        /\ counts[k].value <= counts[j].value
                        /\ counts[k].value = counts[j].value
                              => LexicalRank(counts[j].key) <= LexicalRank(counts[k].key)

\* the summed global counts
TotalClassified ==
    SumSeq([i \in 1..Len(BEHAVIOR_CLASSES) |-> behavior_counts[BEHAVIOR_CLASSES[i]]])

\* C15: the analysis ends with a report, never an exception; its primary behaviour has
\* a maximal global count when a classification was produced and is "No Pig Detected"
\* when none was.
C15_PrimaryBehaviorOrSentinel ==
    batch_pc = "done" =>
        /\ report.status = "success"
        /\ TotalClassified > 0 =>
              /\ report.primary_behavior \in Range(BEHAVIOR_CLASSES)
              /\ \A b \in Range(BEHAVIOR_CLASSES) :
                    behavior_counts[b] <= behavior_counts[report.primary_behavior]
        /\ TotalClassified = 0 => report.primary_behavior = "No Pig Detected"

\* a pig was tracked on two frames but its crop was empty on both: no classification
C15_Witness ==
    /\ batch_pc = "done"
    /\ frame_count >= 10
    /\ 1 \in DOMAIN track_history /\ Len(track_history[1]) = 2
    /\ TotalClassified = 0
    /\ report.primary_behavior = "No Pig Detected"
    /\ report.total_unique_pigs = 0

----------------------------------------------------------------------------
(* Claims about failures *)

\* a message the handler answers with an error: no frame, an undecodable image, or an
\* exception while the frame is processed
FailedFrame(msg) ==
    /\ WsFrame("ws1", msg, MaxWsFrames)
    /\ ws_response'["ws1"].kind = "error"

\* a well-formed frame whose processing does not raise
GoodFrame(msg) ==
    /\ msg.kind = "frame" /\ ~msg.predict_raises
    /\ WsFrame("ws1", msg, MaxWsFrames)

\* C16: a frame that is missing, undecodable or whose processing raises is answered
\* with an error for that frame only: the connection stays open, the id map built so
\* far is kept, and the next well-formed frame is processed normally and resolves the
\* raw ids seen before to the same clean ids.
C16_StreamSurvivesBadFrame ==
    [][\A msg \in StreamMessages :
          /\ FailedFrame(msg) =>
                /\ ws_state'["ws1"] = "open"
                /\ \A r \in DOMAIN id_mapper :
                      r \in DOMAIN id_mapper' /\ id_mapper'[r] = id_mapper[r]
                /\ msg.kind /= "frame" => id_mapper' = id_mapper
          /\ (ws_response["ws1"].kind = "error" /\ GoodFrame(msg)) =>
                /\ ws_response'["ws1"].kind = "detections"
                /\ ws_response'["ws1"].total_tracked_pigs = Cardinality(DOMAIN id_mapper')
                /\ \A k \in 1..Len(msg.dets) :
                      LET d == msg.dets[k]
                      IN Cardinality(RankedAbove(msg, d)) < msg.max_pigs =>
                            /\ d.id \in DOMAIN id_mapper'
                            /\ d.id \in DOMAIN id_mapper => id_mapper'[d.id] = id_mapper[d.id]
                            /\ (d.box[3] - d.box[1]) * (d.box[4] - d.box[2]) >= 100 =>
                                  \E i \in 1..Len(ws_response'["ws1"].detections) :
                                      RecordOf(ws_response'["ws1"].detections[i], d)]_vars

\* an undecodable frame arrived after raw id 7 had been mapped; the connection is open
C16_Witness ==
    /\ ws_state["ws1"] = "open"
    /\ ws_response["ws1"] = [kind |-> "error", error |-> "Could not decode image"]
    /\ ws_frame_count["ws1"] = 2
    /\ 7 \in DOMAIN id_mapper /\ id_mapper[7] = 1

\* C17: an analysis of media that could not be read ends with an error outcome, never
\* with a success report.
C17_UnreadableVideoFails ==
    (batch_pc = "done" /\ ~video.opened) => report.status /= "success"

\* C18: a frame whose processing fails part-way leaves the session state as it was
\* before the frame: no clean id was assigned and the number of tracked pigs has not
\* grown.
C18_FailedFrameAtomic ==
    [][\A msg \in StreamMessages :
          FailedFrame(msg) =>
              /\ id_mapper' = id_mapper
              /\ next_clean_id' = next_clean_id
              /\ Cardinality(DOMAIN id_mapper') = Cardinality(DOMAIN id_mapper)]_vars

----------------------------------------------------------------------------
(* Claims about detections that are not classified *)

BoxArea(box) == (box[3] - box[1]) * (box[4] - box[2])

EmptyCrop(box) == ~(box[3] > box[1] /\ box[4] > box[2])

\* analyze_video_data: a detection with an empty crop changes no tally but its clean
\* id is resolved, joins the open bucket's pigs, and its centroid ends the track's
\* position history
BatchCountsUnclassified ==
    AnalyzedStep =>
        /\ TotalClassified' - TotalClassified
               = Cardinality({i \in 1..Len(results') : ~EmptyCrop(results'[i].box)})
        /\ \A i \in 1..Len(results') :
              LET det == results'[i]
              IN /\ det.id \in DOMAIN id_mapper'
                 /\ id_mapper'[det.id] \in interval_pig_ids'
                 /\ id_mapper'[det.id] \in DOMAIN track_history'
                 /\ \E j \in 1..Len(results') :
                       /\ results'[j].id = det.id
                       /\ track_history'[id_mapper'[det.id]]
                                  [Len(track_history'[id_mapper'[det.id]])]
                              = Centroid(results'[j].box)

\* live_stream: a selected candidate whose crop is empty or smaller than 100 gets no
\* record in the response but its clean id is resolved, joins the observed pigs and
\* its centroid ends the track's position history
StreamCountsUnclassified ==
    \A msg \in StreamMessages :
          (msg.kind = "frame" /\ WsFrame("ws1", msg, MaxWsFrames)) =>
              \A k \in 1..Len(PigData(msg.dets, msg.max_pigs)) :
                  LET d == PigData(msg.dets, msg.max_pigs)[k]
                  IN (EmptyCrop(d.box) \/ BoxArea(d.box) < 100) =>
                        /\ ws_response'["ws1"].kind = "detections" =>
                              \A i \in 1..Len(ws_response'["ws1"].detections) :
                                  ws_response'["ws1"].detections[i].box /= d.box
                        /\ d.id \in DOMAIN id_mapper'
                        /\ id_mapper'[d.id] \in StreamObservedPigs("ws1")'
                        /\ id_mapper'[d.id] \in DOMAIN StreamTrackHistory("ws1")'

\* C19: a detection whose crop is empty or below the area floor is not classified but
\* still counts for presence and position on that frame, in the video analysis and on
\* a stream connection alike.
C19_UnclassifiedStillCounted ==
    [][BatchCountsUnclassified /\ StreamCountsUnclassified]_vars

\* C20: every non-empty message gets exactly one response, a detection response or an
\* error, before the next message is read, and the frame_count of a detection
\* response is the number of messages received so far, failed ones included.
C20_OneResponsePerMessage ==
    [][\A msg \in StreamMessages :
          WsFrame("ws1", msg, MaxWsFrames) =>
              /\ ws_response'["ws1"].kind \in {"detections", "error"}
              /\ ws_frame_count'["ws1"] = ws_frame_count["ws1"] + 1
              /\ ws_response'["ws1"].kind = "detections" =>
                    ws_response'["ws1"].frame_count = ws_frame_count'["ws1"]
              /\ (ws_response["ws1"].kind = "error"
                      /\ ws_response'["ws1"].kind = "detections") =>
                    ws_response'["ws1"].frame_count >= 2]_vars

\* the third message of a connection was answered with two detections
C20_Witness ==
    /\ ws_state["ws1"] = "open"
    /\ ws_frame_count["ws1"] = 3
    /\ ws_response["ws1"].kind = "detections"
    /\ ws_response["ws1"].frame_count = 3
    /\ Len(ws_response["ws1"].detections) = 2

----------------------------------------------------------------------------
(* Claims about what a frame does to the open bucket *)

\* a pass of the loop that reads one more frame
FrameStep ==
    /\ batch_pc = "running" /\ batch_pc' = "running"
    /\ frame_count' = frame_count + 1

\* the frame read is number k * frames_per_interval, k >= 1
OnBoundary == frame_count' % frames_per_interval = 0

C22_FlaggedInOneBucketOnly ==
    \A i, j \in 1..Len(time_series) :
        i < j =>
            /\ Range(time_series[i].lethargic_ids)
                   \cap Range(time_series[j].lethargic_ids) = {}
            /\ Range(time_series[i].limping_ids)
                   \cap Range(time_series[j].limping_ids) = {}

\* what a frame without observations must leave alone
ObservationState ==
    <<id_mapper, next_clean_id, track_history, displacement_history, idle_frames,
      lethargic_pigs, limping_pigs, behavior_counts, pig_behavior_history,
      interval_pig_ids, interval_pig_behaviors, interval_lethargic_ids,
      interval_limping_ids>>

\* C23: a frame skipped by the stride or without detections changes only the raw frame
\* counter and, on a boundary, closes the open bucket: the id map, the histories, the
\* idle counters, the flags and the tallies stay as they are, and a displacement is
\* measured against the track's previous analysed observation, however long ago.
C23_SkippedFrameChangesNothing ==
    [][FrameStep =>
        /\ (frame_count' % 5 /= 0 \/ results' = <<>>) =>
              /\ UNCHANGED <<id_mapper, next_clean_id, track_history,
                             displacement_history, idle_frames, lethargic_pigs,
                             limping_pigs, behavior_counts, pig_behavior_history>>
              /\ ~OnBoundary => UNCHANGED <<ObservationState, time_series>>
              /\ OnBoundary =>
                    /\ Len(time_series') = Len(time_series) + 1
                    /\ interval_pig_ids' = {} /\ interval_pig_behaviors' = <<>>
        /\ frame_count' % 5 /= 0 => results' = <<>>
        /\ \A i \in 1..Len(results') :
              LET det == results'[i]
                  c == id_mapper'[det.id]
              IN HasPrevious(c) =>
                    displacement_history'[c][Len(displacement_history'[c])]
                        = ObservedDisplacement(det, c)]_vars

\* the pig was seen on raw frames 5 and 15 and not on frame 10: one displacement
C23_Witness ==
    /\ batch_pc = "running" /\ frame_count = 15
    /\ DOMAIN id_mapper = {7}
    /\ Len(track_history[1]) = 2
    /\ track_history[1][1] /= track_history[1][2]
    /\ 1 \in DOMAIN displacement_history /\ Len(displacement_history[1]) = 1
    /\ displacement_history[1][1] >= 10

----------------------------------------------------------------------------
(* Claims about the histories and the derived parameters *)

\* C24: a track's displacement window never holds more than 20 values and its
\* position history never more than 15; a new value is appended at the end and, when
\* the history is full, the oldest value is dropped and the others keep their order.
C24_HistoriesBounded ==
    [][/\ \A c \in DOMAIN displacement_history' : Len(displacement_history'[c]) <= 20
       /\ \A c \in DOMAIN track_history' : Len(track_history'[c]) <= 15
       /\ AnalyzedStep =>
             \A i \in 1..Len(results') :
                 LET det == results'[i]
                     c == id_mapper'[det.id]
                     places == At(track_history, c, <<>>)
                     window == At(displacement_history, c, <<>>)
                 IN /\ track_history'[c] =
                          Append(IF Len(places) = 15 THEN Tail(places) ELSE places,
                                 Centroid(det.box))
                    /\ HasPrevious(c) =>
                          displacement_history'[c] =
                              Append(IF Len(window) = 20 THEN Tail(window) ELSE window,
                                     ObservedDisplacement(det, c))]_vars

\* after 23 observations of the walking pig the two oldest displacements are gone
C24_Witness ==
    /\ frame_count = 115
    /\ Len(track_history[1]) = 15
    /\ Len(displacement_history[1]) = 20
    /\ displacement_history[1][1] = 40
    /\ displacement_history[1][2] = 5
    /\ displacement_history[1][20] = 5

\* C25: frames_per_interval is the nearest integer to fps * 2 (60 for 29.97 fps, 48 for
\* 23.976 fps) and is at least 1 for every positive frame rate, so the boundary check
\* never divides by zero.
C25_FramesPerIntervalRounded ==
    batch_pc /= "idle" =>
        /\ frames_per_interval = (2 * fps + 500) \div 1000
        /\ fps = 29970 => frames_per_interval = 60
        /\ fps = 23976 => frames_per_interval = 48
        /\ fps > 0 => frames_per_interval >= 1
        /\ batch_pc /= "error"

----------------------------------------------------------------------------
(* Claims about the tallies *)

\* the pig ids of all groups of a breakdown
GroupedIds(breakdown) ==
    UNION {Range(breakdown[g].pig_ids) : g \in 1..Len(breakdown)}

\* the bucket appended by this step, if any
BucketClosed == Len(time_series') = Len(time_series) + 1

\* C26: the behaviour breakdown of every bucket is a partial partition of the bucket's
\* pigs: a pig id is in at most one group, the group of the last label it was
\* classified with in the bucket; every grouped id is one of the pigs counted; each
\* count is the length of its pig_ids; and the counts sum to at most pig_count.
C26_BreakdownPartialPartition ==
    [][/\ \A k \in 1..Len(time_series') :
             LET b == time_series'[k].behavior_breakdown
             IN /\ \A g, h \in 1..Len(b) :
                       g /= h => /\ b[g].behavior /= b[h].behavior
                                 /\ Range(b[g].pig_ids) \cap Range(b[h].pig_ids) = {}
                /\ \A g \in 1..Len(b) :
                       /\ b[g].count = Len(b[g].pig_ids)
                       /\ b[g].count = Cardinality(Range(b[g].pig_ids))
                /\ SumSeq([g \in 1..Len(b) |-> b[g].count]) <= time_series'[k].pig_count
       /\ BucketClosed =>
             LET closed == time_series'[Len(time_series')]
                 b == closed.behavior_breakdown
             IN /\ closed.pig_count = Cardinality(interval_pig_ids)
                /\ GroupedIds(b) \subseteq interval_pig_ids
                /\ \A g \in 1..Len(b) : \A c \in Range(b[g].pig_ids) :
                       \E n \in 1..Len(interval_pig_behaviors) :
                           /\ interval_pig_behaviors[n].key = c
                           /\ interval_pig_behaviors[n].value = b[g].behavior
       /\ AnalyzedStep =>
             \A i \in 1..Len(results') :
                 ~EmptyCrop(results'[i].box) =>
                     \A n \in 1..Len(interval_pig_behaviors') :
                         interval_pig_behaviors'[n].key = id_mapper'[results'[i].id]
                             => interval_pig_behaviors'[n].value = results'[i].behavior]_vars

\* at 30 fps the first bucket groups the second pig under Walking, its last label,
\* although it was also seen Lying in that bucket
C26_Witness ==
    /\ fps = 30000 /\ frame_count = 60
    /\ time_series /= <<>>
    /\ time_series[1].pig_count = 2
    /\ time_series[1].behavior_breakdown =
           <<[behavior |-> "Eating", count |-> 1, pig_ids |-> <<1>>],
             [behavior |-> "Walking", count |-> 1, pig_ids |-> <<2>>]>>
    /\ DictValue(pig_behavior_history[2], "Lying", 0) >= 1

\* the count of label b in the per-track dict d
TrackCount(d, b) ==
    IF \E n \in 1..Len(d) : d[n].key = b
    THEN d[CHOOSE n \in 1..Len(d) : d[n].key = b].value
    ELSE 0

\* the tracks' counts for a label, summed over the tracks of a history
RECURSIVE SumOverTracks(_, _, _)
SumOverTracks(history, tracks, b) ==
    IF tracks = {} THEN 0
    ELSE LET c == CHOOSE x \in tracks : TRUE
         IN TrackCount(history[c], b) + SumOverTracks(history, tracks \ {c}, b)

\* the classifications recorded in the per-track dict d
TrackTotal(d) == SumSeq([n \in 1..Len(d) |-> d[n].value])

\* C27: for every label the global count is the sum of the tracks' counts; every
\* classification adds 1 to one global count and to one per-track count; and
\* total_unique_pigs is the number of pig summaries, the clean ids classified at
\* least once, never more than the clean ids assigned.
C27_TalliesConsistent ==
    [][/\ \A b \in Range(BEHAVIOR_CLASSES) :
             behavior_counts'[b] =
                 SumOverTracks(pig_behavior_history', DOMAIN pig_behavior_history', b)
       /\ \A c \in DOMAIN pig_behavior_history' :
             /\ TrackTotal(pig_behavior_history'[c]) >= 1
             /\ \A n, m \in 1..Len(pig_behavior_history'[c]) :
                   n /= m => pig_behavior_history'[c][n].key
                                 /= pig_behavior_history'[c][m].key
       /\ Cardinality(DOMAIN pig_behavior_history')
              <= Cardinality(DOMAIN id_mapper')
       /\ AnalyzedStep =>
             /\ TotalClassified' - TotalClassified
                    = Cardinality({i \in 1..Len(results') : ~EmptyCrop(results'[i].box)})
             /\ \A i \in 1..Len(results') :
                   LET det == results'[i]
                       c == id_mapper'[det.id]
                       before == At(pig_behavior_history, c, <<>>)
                   IN ~EmptyCrop(det.box) =>
                         /\ behavior_counts'[det.behavior]
                                >= behavior_counts[det.behavior] + 1
                         /\ TrackCount(pig_behavior_history'[c], det.behavior)
                                = TrackCount(before, det.behavior) + 1
                         /\ TrackTotal(pig_behavior_history'[c])
                                = TrackTotal(before) + 1
       /\ batch_pc' = "done" =>
             /\ report'.total_unique_pigs = Len(report'.pig_summaries)
             /\ {report'.pig_summaries[i].pig_id : i \in 1..Len(report'.pig_summaries)}
                    = DOMAIN pig_behavior_history'
             /\ report'.total_unique_pigs <= Cardinality(DOMAIN id_mapper')]_vars

\* two pigs were assigned ids, one was never classified: the report counts one pig
C27_Witness ==
    /\ batch_pc = "done"
    /\ Cardinality(DOMAIN id_mapper) = 2
    /\ report.total_unique_pigs = 1
    /\ Len(report.pig_summaries) = 1
    /\ TotalClassified = 2
    /\ behavior_counts["Eating"] = 2

====
